---- MODULE Spec2Model ----
(***************************************************************************)
(* Scheduling, budget-enforcement and weight-optimization control loop of  *)
(* the video factory (mvp/app/services/scheduler, mvp/app/services/        *)
(* optimization, mvp/app/utils/pricing.py, mvp/scripts/run_worker.py).     *)
(*                                                                         *)
(* Money is counted in units of 10^-7 of a currency unit, so that every    *)
(* price of pricing.py and the 70/30 split of a job's cost are integers.   *)
(* Weights are exact rationals <<numerator, denominator>>; the floating    *)
(* point rounding of the Python code is not modelled.                      *)
(***************************************************************************)
EXTENDS Integers, Sequences, FiniteSets, TLC

VARIABLES
    now,                \* wall clock, in hours
    jobs,               \* table jobs: id -> Job row
    cost_tracking,      \* table cost_tracking: day -> CostTracking row
    format_weight_rows, \* table format_weights: format -> FormatWeight row
    pc,                 \* position of the schedule_jobs call
    format_weights,     \* JobScheduler.format_weights (in memory)
    jobs_to_schedule,   \* local of schedule_jobs
    slot,               \* loop index i of schedule_jobs
    budget_remaining,   \* parameter/local of schedule_jobs
    scheduled_jobs,     \* local of schedule_jobs: ids of the jobs to return
    cycle,              \* history of the running cycle (arguments, what it persisted)
    wpc,                \* position of the worker loop
    opt,                \* outcome of the last optimizer call
    kill_switch,        \* table config: the row of key kill_switch_enabled
    automation_enabled, \* table config: the row of key automation_enabled
    session_weights,    \* rows changed in the optimizer's session, not committed
    peer,               \* a schedule_jobs call of another process, inside _create_job
    call,               \* the last call of a function that changes no state: name, arguments, result
    proc                \* locals of _process_jobs: pending_jobs not yet visited, the job in hand

vars ==
    <<now, jobs, cost_tracking, format_weight_rows, pc, format_weights,
      jobs_to_schedule, slot, budget_remaining, scheduled_jobs, cycle, wpc, opt,
      kill_switch, automation_enabled, session_weights, peer, call, proc>>

---------------------------------------------------------------------------
\* Bounds of the model

MaxJobsHint == 4

MaxBudgetJobs == 2

MaxNow == 1

MaxWeightDenominator == 10

MaxOverrideDenominator == 2

MaxOverdue == 1

MaxRetryCount == 1

MaxDeletedJobs == 1

---------------------------------------------------------------------------
\* Arithmetic helpers

Min(a, b) == IF a <= b THEN a ELSE b

Max(a, b) == IF a >= b THEN a ELSE b

MoneyUnit == 10 * 1000 * 1000

---------------------------------------------------------------------------
\* Rationals <<n, d>> with d > 0, kept in lowest terms

RECURSIVE Gcd(_, _)
Gcd(a, b) == IF b = 0 THEN a ELSE Gcd(b, a % b)

Abs(a) == IF a < 0 THEN -a ELSE a

Rat(n, d) ==
    LET g == Gcd(Abs(n), Abs(d))
        s == IF d < 0 THEN -1 ELSE 1
    IN  <<(s * n) \div g, (s * d) \div g>>

RatAdd(x, y) ==
    LET g == Gcd(x[2], y[2])
    IN  Rat(x[1] * (y[2] \div g) + y[1] * (x[2] \div g), (x[2] \div g) * y[2])

RatSub(x, y) == RatAdd(x, <<-y[1], y[2]>>)

RatMul(x, y) == Rat(x[1] * y[1], x[2] * y[2])

RatDiv(x, y) == Rat(x[1] * y[2], x[2] * y[1])

RatLe(x, y) == x[1] * y[2] <= y[1] * x[2]

RatLt(x, y) == x[1] * y[2] < y[1] * x[2]

RatMin(x, y) == IF RatLe(x, y) THEN x ELSE y

RatMax(x, y) == IF RatLe(y, x) THEN x ELSE y

RatZero == <<0, 1>>

RatOne == <<1, 1>>

---------------------------------------------------------------------------
\* app/config/schema.py, app/db/models.py

VideoFormat == {"talking_object", "absurd_motivation", "nothing_happens"}

VideoStatus ==
    {"pending", "generating", "rendering", "uploading", "completed", "failed", "rejected"}

Today == now \div 24

---------------------------------------------------------------------------
\* app/utils/pricing.py: CostCalculator

Gpt4oInputPrice == 5

Gpt4oOutputPrice == 15

DallE3StandardPrice == 400000

Tts1PerCharacter == 150

UsdToEurPercent == 93

EstimatedInputTokens == 500

EstimatedOutputTokens == 1500

TtsLength == 100

UsdToEur(usd) == (usd * UsdToEurPercent) \div 100

\* tokens / 1_000_000 * price, in units of 10^-7
EstimateEpisodeGenerationCost ==
    UsdToEur((EstimatedInputTokens * Gpt4oInputPrice
              + EstimatedOutputTokens * Gpt4oOutputPrice) * (MoneyUnit \div 1000000))

EstimateImageGenerationCost == UsdToEur(DallE3StandardPrice)

EstimateTtsCost == UsdToEur(TtsLength * Tts1PerCharacter)

EstimateTotalVideoCost(format) ==
    EstimateEpisodeGenerationCost + EstimateImageGenerationCost + EstimateTtsCost

\* mutant: the budget is tested before the video count
CheckBudgetComplianceBudgetFirst(daily_cost, budget, video_count, max_videos) ==
    IF daily_cost >= budget THEN <<FALSE, "budget">>
    ELSE IF video_count >= max_videos THEN <<FALSE, "max_videos">>
    ELSE <<TRUE, "compliant">>

\* check_budget_compliance: the video count is tested first
CheckBudgetCompliance(daily_cost, budget, video_count, max_videos) ==
    IF video_count >= max_videos THEN <<FALSE, "max_videos">>
    ELSE IF daily_cost >= budget THEN <<FALSE, "budget">>
    ELSE <<TRUE, "compliant">>

---------------------------------------------------------------------------
\* app/services/scheduler/job_scheduler.py: JobScheduler

MaxDailyVideos == 3

DailyBudget == 3 * MoneyUnit

DefaultFormatWeights == [f \in VideoFormat |-> RatOne]

\* mutant: a failed query leaves the weights of the earlier cycle in place
LoadFormatWeightsKeepOnFailure(mem, rows, loadOk) ==
    [f \in VideoFormat |->
        IF loadOk /\ f \in DOMAIN rows THEN rows[f].weight ELSE mem[f]]

\* _load_format_weights: rows overwrite the in-memory weights; a failed
\* query resets every weight to 1.0
LoadFormatWeights(mem, rows, loadOk) ==
    IF loadOk
    THEN [f \in VideoFormat |-> IF f \in DOMAIN rows THEN rows[f].weight ELSE mem[f]]
    ELSE DefaultFormatWeights

\* mutant: the query also sees what another session has not committed
VisibleRowsUncommitted(rows, uncommitted) ==
    [f \in DOMAIN rows \cup DOMAIN uncommitted |->
        IF f \in DOMAIN uncommitted THEN uncommitted[f] ELSE rows[f]]

\* session.query(FormatWeight).all(): the committed rows, whatever another
\* session has changed and not committed
VisibleRows(rows, uncommitted) == rows

JobsCreatedOn(day) == {id \in DOMAIN jobs : jobs[id].day = day}

\* mutant: the jobs already created today are not subtracted
AvailableJobSlotsIgnoringToday(daily_jobs, countOk) ==
    IF countOk THEN MaxDailyVideos ELSE 0

\* _calculate_available_job_slots: a failed query gives 0 slots
CalculateAvailableJobSlots(daily_jobs, countOk) ==
    IF countOk THEN Max(0, MaxDailyVideos - daily_jobs) ELSE 0

RECURSIVE RatSum(_, _)
RatSum(w, S) ==
    IF S = {} THEN RatZero
    ELSE LET f == CHOOSE x \in S : TRUE IN RatAdd(w[f], RatSum(w, S \ {f}))

\* mutant: the weights are not looked at
SelectFormatIgnoringWeights(w) == VideoFormat

\* _select_format_based_on_weights: the formats random.choices can return;
\* a zero total raises ZeroDivisionError and falls back to random.choice
SelectFormatBasedOnWeights(w) ==
    IF RatSum(w, VideoFormat) = RatZero THEN VideoFormat
    ELSE {f \in VideoFormat : RatLt(RatZero, w[f])}

\* mutant: only the generation share of the estimate is compared
BudgetExceededGenerationShare(estimated_cost, remaining) ==
    (estimated_cost * 7) \div 10 > remaining

\* mutant: an estimate equal to the remaining budget is refused too
BudgetExceededAtEqual(estimated_cost, remaining) == estimated_cost >= remaining

\* schedule_jobs: estimated_cost > budget_remaining
BudgetExceeded(estimated_cost, remaining) == estimated_cost > remaining

\* what one iteration of the loop of schedule_jobs comes to
SlotOutcome(costOk, estimated_cost, remaining, insertOk, ledgerOk) ==
    IF ~costOk THEN "cost_error"
    ELSE IF BudgetExceeded(estimated_cost, remaining) THEN "budget_exceeded"
    ELSE IF ~insertOk THEN "insert_error"
    ELSE IF ~ledgerOk THEN "ledger_error"
    ELSE "created"

\* mutant: a budget refusal skips the slot (continue) instead of ending the loop
AfterSlotContinueOnRefusal(outcome) ==
    CASE outcome \in {"created", "budget_exceeded"} -> "loop"
      [] OTHER -> "raised"

\* where schedule_jobs goes after an iteration: next iteration, break and
\* return, or the except clause that raises SchedulingError
AfterSlot(outcome) ==
    CASE outcome = "created" -> "loop"
      [] outcome = "budget_exceeded" -> "returned"
      [] OTHER -> "raised"

\* _create_job commits the job row before _update_cost_tracking runs
JobCommitted(outcome) == outcome \in {"created", "ledger_error"}

\* mutant: the ledger is incremented before the job row is committed
LedgerCommittedBeforeJob(outcome) == outcome \in {"created", "insert_error"}

LedgerCommitted(outcome) == outcome = "created"

NewId == CHOOSE id \in 1..(Cardinality(DOMAIN jobs) + 1) : id \notin DOMAIN jobs

\* mutant: the whole estimate is booked as generation cost
NewJobNoRenderShare(format, estimated_cost, day) ==
    [format |-> format,
     status |-> "pending",
     generation_cost |-> (estimated_cost * 7) \div 10,
     render_cost |-> 0,
     day |-> day,
     retry_count |-> 0,
     youtube_id |-> FALSE,
     error_message |-> FALSE]

NewJob(format, estimated_cost, day) ==
    [format |-> format,
     status |-> "pending",
     generation_cost |-> (estimated_cost * 7) \div 10,
     render_cost |-> (estimated_cost * 3) \div 10,
     day |-> day,
     retry_count |-> 0,
     youtube_id |-> FALSE,
     error_message |-> FALSE]

EmptyCostTracking == [openai_cost |-> 0, total_cost |-> 0, video_count |-> 0]

CostTrackingOf(day) ==
    IF day \in DOMAIN cost_tracking THEN cost_tracking[day] ELSE EmptyCostTracking

\* mutant: the cost is added to the total only
UpdateCostTrackingTotalOnly(ct, day, cost) ==
    LET row == IF day \in DOMAIN ct THEN ct[day] ELSE EmptyCostTracking
        new == [openai_cost |-> row.openai_cost,
                total_cost |-> row.total_cost + cost,
                video_count |-> row.video_count + 1]
    IN  [d \in DOMAIN ct \cup {day} |-> IF d = day THEN new ELSE ct[d]]

\* _update_cost_tracking: get or create today's row, add the cost, commit
UpdateCostTracking(ct, day, cost) ==
    LET row == IF day \in DOMAIN ct THEN ct[day] ELSE EmptyCostTracking
        new == [openai_cost |-> row.openai_cost + cost,
                total_cost |-> row.total_cost + cost,
                video_count |-> row.video_count + 1]
    IN  [d \in DOMAIN ct \cup {day} |-> IF d = day THEN new ELSE ct[d]]

NoCycle ==
    [max_jobs |-> 0, budget_hint |-> 0, daily_jobs |-> 0, created |-> 0, cost |-> 0,
     attempts |-> 0, outcome |-> "none", refused_at |-> 0, failed_at |-> 0,
     uncommitted_at_load |-> 0]

\* schedule_jobs, up to the loop
ScheduleJobsBegin(max_jobs, budget, loadOk, countOk) ==
    /\ pc = "idle"
    /\ format_weights' =
          LoadFormatWeights(format_weights,
                            VisibleRows(format_weight_rows, session_weights.rows), loadOk)
    /\ jobs_to_schedule' =
          Min(max_jobs,
              CalculateAvailableJobSlots(Cardinality(JobsCreatedOn(Today)), countOk))
    /\ slot' = 0
    /\ budget_remaining' = budget
    /\ scheduled_jobs' = <<>>
    /\ cycle' = [NoCycle EXCEPT !.max_jobs = max_jobs, !.budget_hint = budget,
                                !.daily_jobs = Cardinality(JobsCreatedOn(Today)),
                                !.uncommitted_at_load =
                                    Cardinality(DOMAIN session_weights.rows)]
    /\ pc' = "loop"
    /\ UNCHANGED <<now, jobs, cost_tracking, format_weight_rows, opt,
                   kill_switch, automation_enabled, session_weights, peer, call, proc>>

\* one iteration of the loop of schedule_jobs
ScheduleSlot(format, costOk, insertOk, ledgerOk) ==
    /\ pc = "loop"
    /\ slot < jobs_to_schedule
    /\ format \in SelectFormatBasedOnWeights(format_weights)
    /\ LET estimated_cost == EstimateTotalVideoCost(format)
           outcome == SlotOutcome(costOk, estimated_cost, budget_remaining,
                                  insertOk, ledgerOk)
           id == NewId
       IN  /\ jobs' = IF JobCommitted(outcome)
                      THEN [j \in DOMAIN jobs \cup {id} |->
                              IF j = id THEN NewJob(format, estimated_cost, Today)
                              ELSE jobs[j]]
                      ELSE jobs
           /\ cost_tracking' = IF LedgerCommitted(outcome)
                               THEN UpdateCostTracking(cost_tracking, Today, estimated_cost)
                               ELSE cost_tracking
           /\ scheduled_jobs' = IF outcome = "created"
                                THEN Append(scheduled_jobs, id) ELSE scheduled_jobs
           /\ budget_remaining' = IF outcome = "created"
                                  THEN budget_remaining - estimated_cost
                                  ELSE budget_remaining
           /\ slot' = IF AfterSlot(outcome) = "loop" THEN slot + 1 ELSE slot
           /\ pc' = AfterSlot(outcome)
           /\ cycle' = [cycle EXCEPT
                 !.attempts = @ + 1,
                 !.outcome = outcome,
                 !.created = IF JobCommitted(outcome) THEN @ + 1 ELSE @,
                 !.cost = IF JobCommitted(outcome) THEN @ + estimated_cost ELSE @,
                 !.refused_at = IF outcome = "budget_exceeded" /\ @ = 0
                                THEN cycle.attempts + 1 ELSE @,
                 !.failed_at = IF outcome \in {"cost_error", "insert_error", "ledger_error"}
                                  /\ @ = 0
                               THEN cycle.attempts + 1 ELSE @]
    /\ UNCHANGED <<now, format_weight_rows, format_weights, jobs_to_schedule, opt,
                   kill_switch, automation_enabled, session_weights, peer, call, proc>>

\* the loop of schedule_jobs is exhausted: return scheduled_jobs
ScheduleLoopEnd ==
    /\ pc = "loop"
    /\ slot >= jobs_to_schedule
    /\ pc' = "returned"
    /\ UNCHANGED <<now, jobs, cost_tracking, format_weight_rows, format_weights,
                   jobs_to_schedule, slot, budget_remaining, scheduled_jobs, cycle, opt,
                   kill_switch, automation_enabled, session_weights, peer, call, proc>>

\* the caller has the list, or the SchedulingError
ScheduleJobsEnd ==
    /\ pc \in {"returned", "raised"}
    /\ pc' = "idle"
    /\ jobs_to_schedule' = 0
    /\ slot' = 0
    /\ budget_remaining' = 0
    /\ scheduled_jobs' = <<>>
    /\ cycle' = NoCycle
    /\ UNCHANGED <<now, jobs, cost_tracking, format_weight_rows, format_weights, opt,
                   kill_switch, automation_enabled, session_weights, peer, call, proc>>

---------------------------------------------------------------------------
\* What the other sessions hold at the start: nothing

\* touched: the formats whose record the loop had changed when it ended
NoSession == [new_weights |-> << >>, rows |-> << >>, touched |-> {}]

NoPeer == [pc |-> "idle", found |-> FALSE, row |-> EmptyCostTracking, cost |-> 0]

\* no function has been called yet
NoCall == [fn |-> "none", args |-> << >>, ok |-> TRUE, ret |-> << >>]

\* _process_jobs is not running; job ids start at 1
NoProc == [pending_jobs |-> {}, job |-> 0]

---------------------------------------------------------------------------
\* app/services/optimization/format_optimizer.py: FormatOptimizer, with the
\* performance of app/services/analytics/metrics_collector.py as its input

MinSamples == 3

MaxAdjustment == <<1, 5>>

WeightFloor == <<1, 10>>

\* get_format_performance gives {count, avg_views, avg_pct} per format; a
\* format without completed jobs has all three 0
PerfSamples ==
    {[count |-> 0, avg_views |-> 0, avg_pct |-> 0],
     [count |-> 1, avg_views |-> 3, avg_pct |-> 0],
     [count |-> 2, avg_views |-> 6, avg_pct |-> 0],
     [count |-> 10, avg_views |-> 0, avg_pct |-> 10]}

\* get_format_performance returns {} when its query fails
Performances == [VideoFormat -> PerfSamples] \cup {<< >>}

RECURSIVE TotalVideos(_, _)
TotalVideos(performance, S) ==
    IF S = {} THEN 0
    ELSE LET f == CHOOSE x \in S : TRUE
         IN  performance[f].count + TotalVideos(performance, S \ {f})

\* mutant: the number of formats reported is compared, not the number of videos
InsufficientDataByFormats(performance) ==
    Cardinality(DOMAIN performance) < MinSamples

InsufficientData(performance) ==
    TotalVideos(performance, DOMAIN performance) < MinSamples

\* _get_current_weights: the rows of the store; the defaults when the query fails
GetCurrentWeights(rows, readOk) ==
    IF readOk THEN [f \in DOMAIN rows |-> rows[f].weight] ELSE DefaultFormatWeights

\* ten times 0.6 * avg_pct + 0.3 * avg_views + 0.1 * count
PerformanceScore(data) ==
    IF data.count > 0 THEN 6 * data.avg_pct + 3 * data.avg_views + data.count ELSE 0

RECURSIVE TotalScore(_, _)
TotalScore(performance, S) ==
    IF S = {} THEN 0
    ELSE LET f == CHOOSE x \in S : TRUE
         IN  PerformanceScore(performance[f]) + TotalScore(performance, S \ {f})

Adjustment(target_weight, current_weight) ==
    RatMin(MaxAdjustment,
           RatMax(<<-MaxAdjustment[1], MaxAdjustment[2]>>,
                  RatSub(target_weight, current_weight)))

\* the loop over VideoFormat: bounded adjustment, then the minimum weight
ConstrainedWeights(performance, current_weights) ==
    LET total_score == TotalScore(performance, DOMAIN performance)
    IN  [f \in VideoFormat |->
           LET current_weight ==
                   IF f \in DOMAIN current_weights THEN current_weights[f] ELSE RatOne
               target_weight ==
                   IF f \in DOMAIN performance
                   THEN Rat(PerformanceScore(performance[f]), total_score)
                   ELSE RatZero
           IN  RatMax(WeightFloor,
                      RatAdd(current_weight, Adjustment(target_weight, current_weight)))]

\* mutant: the factor len(new_weights) is forgotten
NormalizeToOne(new_weights) ==
    LET total_new_weight == RatSum(new_weights, DOMAIN new_weights)
    IN  IF RatLt(RatZero, total_new_weight)
        THEN [f \in DOMAIN new_weights |-> RatDiv(new_weights[f], total_new_weight)]
        ELSE new_weights

\* weight / total_new_weight * len(new_weights)
NormalizeWeights(new_weights) ==
    LET total_new_weight == RatSum(new_weights, DOMAIN new_weights)
    IN  IF RatLt(RatZero, total_new_weight)
        THEN [f \in DOMAIN new_weights |->
                RatMul(RatDiv(new_weights[f], total_new_weight),
                       <<Cardinality(DOMAIN new_weights), 1>>)]
        ELSE new_weights

CalculateNewWeights(performance, current_weights) ==
    IF TotalScore(performance, DOMAIN performance) = 0
    THEN current_weights
    ELSE NormalizeWeights(ConstrainedWeights(performance, current_weights))

AutomaticReason == "Automatic optimization based on performance"

\* mutant: rows that exist are left as they are, only missing rows are written
ApplyNewWeightsInsertOnly(rows, new_weights, at) ==
    [f \in DOMAIN rows \cup DOMAIN new_weights |->
        IF f \in DOMAIN rows THEN rows[f]
        ELSE [weight |-> new_weights[f],
              last_updated |-> at,
              reason |-> "Initial optimization setup"]]

\* mutant: the rows that exist are updated, no row is added
ApplyNewWeightsUpdateOnly(rows, new_weights, at) ==
    [f \in DOMAIN rows |->
        IF f \notin DOMAIN new_weights THEN rows[f]
        ELSE [weight |-> new_weights[f],
              last_updated |-> at,
              reason |-> AutomaticReason]]

\* _apply_new_weights: update or insert one row per weight, one commit
ApplyNewWeights(rows, new_weights, at) ==
    [f \in DOMAIN rows \cup DOMAIN new_weights |->
        IF f \notin DOMAIN new_weights THEN rows[f]
        ELSE [weight |-> new_weights[f],
              last_updated |-> at,
              reason |-> IF f \in DOMAIN rows THEN AutomaticReason
                         ELSE "Initial optimization setup"]]

\* opt also keeps what the call was given: the performance of an automatic
\* run, the adjustments of a manual one
NoOpt ==
    [status |-> "none", total_videos |-> 0, before |-> << >>,
     performance |-> << >>, adjustments |-> << >>]

\* the arithmetic of a run stays within the integers of the checker
WithinPrecision(rows) == \A f \in DOMAIN rows : rows[f].weight[2] <= MaxWeightDenominator

\* optimize_format_weights
OptimizeFormatWeights(performance, readOk, applyOk) ==
    /\ opt.status = "none"
    /\ WithinPrecision(format_weight_rows)
    /\ LET insufficient == InsufficientData(performance)
           current_weights == GetCurrentWeights(format_weight_rows, readOk)
           new_weights == CalculateNewWeights(performance, current_weights)
           rows == IF insufficient \/ ~applyOk THEN format_weight_rows
                   ELSE ApplyNewWeights(format_weight_rows, new_weights, now)
       IN  /\ format_weight_rows' = rows
           /\ opt' = [status |-> IF insufficient THEN "insufficient_data"
                                 ELSE IF applyOk THEN "success" ELSE "error",
                      total_videos |-> TotalVideos(performance, DOMAIN performance),
                      before |-> format_weight_rows,
                      performance |-> performance,
                      adjustments |-> << >>]
    /\ UNCHANGED <<now, jobs, cost_tracking, pc, format_weights, jobs_to_schedule,
                   slot, budget_remaining, scheduled_jobs, cycle, wpc,
                   kill_switch, automation_enabled, session_weights, peer, call, proc>>

\* the caller has the result, or the OptimizationError
OptimizeFormatWeightsEnd ==
    /\ opt.status # "none"
    /\ opt' = NoOpt
    /\ UNCHANGED <<now, jobs, cost_tracking, format_weight_rows, pc, format_weights,
                   jobs_to_schedule, slot, budget_remaining, scheduled_jobs, cycle, wpc,
                   kill_switch, automation_enabled, session_weights, peer, call, proc>>

---------------------------------------------------------------------------
\* _apply_new_weights record by record, as other sessions can interleave with it

\* optimize_format_weights up to the call of _apply_new_weights
BeginApplyNewWeights(performance, readOk) ==
    /\ opt.status = "none"
    /\ WithinPrecision(format_weight_rows)
    /\ ~InsufficientData(performance)
    /\ opt' = [status |-> "applying",
               total_videos |-> TotalVideos(performance, DOMAIN performance),
               before |-> format_weight_rows,
               performance |-> performance,
               adjustments |-> << >>]
    /\ session_weights' =
          [NoSession EXCEPT !.new_weights =
              CalculateNewWeights(performance,
                                  GetCurrentWeights(format_weight_rows, readOk))]
    /\ UNCHANGED <<now, jobs, cost_tracking, format_weight_rows, pc, format_weights,
                   jobs_to_schedule, slot, budget_remaining, scheduled_jobs, cycle,
                   wpc, kill_switch, automation_enabled, peer, call, proc>>

\* one turn of the loop: the record of fmt is changed or added in the session
ApplyWeightRecord(fmt) ==
    /\ opt.status = "applying"
    /\ fmt \in DOMAIN session_weights.new_weights \ DOMAIN session_weights.rows
    /\ LET one == [f \in {fmt} |-> session_weights.new_weights[f]]
           record == ApplyNewWeights(format_weight_rows, one, now)[fmt]
       IN  session_weights' =
               [session_weights EXCEPT
                   !.rows = [f \in DOMAIN @ \cup {fmt} |->
                                IF f = fmt THEN record ELSE @[f]]]
    /\ UNCHANGED <<now, jobs, cost_tracking, format_weight_rows, pc, format_weights,
                   jobs_to_schedule, slot, budget_remaining, scheduled_jobs, cycle,
                   wpc, opt, kill_switch, automation_enabled, peer, call, proc>>

\* mutant: a failure leaves the records changed so far in the store
PublishedRowsNoRollback(rows, uncommitted, commitOk) ==
    [f \in DOMAIN rows \cup DOMAIN uncommitted |->
        IF f \in DOMAIN uncommitted THEN uncommitted[f] ELSE rows[f]]

\* session.commit() publishes every changed record at once; the except
\* clause rolls all of them back
PublishedRows(rows, uncommitted, commitOk) ==
    IF commitOk
    THEN [f \in DOMAIN rows \cup DOMAIN uncommitted |->
             IF f \in DOMAIN uncommitted THEN uncommitted[f] ELSE rows[f]]
    ELSE rows

\* the loop is over and session.commit() runs, or a query, a flush or the
\* commit raises and the except clause runs
EndApplyNewWeights(commitOk) ==
    /\ opt.status = "applying"
    /\ commitOk => DOMAIN session_weights.rows = DOMAIN session_weights.new_weights
    /\ format_weight_rows' =
          PublishedRows(format_weight_rows, session_weights.rows, commitOk)
    /\ session_weights' = [session_weights EXCEPT !.rows = << >>,
                                                  !.touched = DOMAIN session_weights.rows]
    /\ opt' = [opt EXCEPT !.status = IF commitOk THEN "success" ELSE "error"]
    /\ UNCHANGED <<now, jobs, cost_tracking, pc, format_weights, jobs_to_schedule,
                   slot, budget_remaining, scheduled_jobs, cycle, wpc,
                   kill_switch, automation_enabled, peer, call, proc>>

\* the caller has the result, or the OptimizationError
ReturnApplyNewWeights ==
    /\ opt.status \in {"success", "error"}
    /\ opt' = NoOpt
    /\ session_weights' = NoSession
    /\ UNCHANGED <<now, jobs, cost_tracking, format_weight_rows, pc, format_weights,
                   jobs_to_schedule, slot, budget_remaining, scheduled_jobs, cycle,
                   wpc, kill_switch, automation_enabled, peer, call, proc>>

\* hours between optimizations
CooldownPeriod == 24

\* should_optimize: no row yet, or the newest row is older than the cooldown
ShouldOptimize(rows, at) ==
    \/ DOMAIN rows = {}
    \/ \E f \in DOMAIN rows :
          /\ \A g \in DOMAIN rows : rows[g].last_updated <= rows[f].last_updated
          /\ at - rows[f].last_updated > CooldownPeriod

\* the additive adjustments an operator passes to manual_optimization
AdjustmentValues == {<<-1, 1>>, <<1, 2>>}

Adjustments == UNION {[S -> AdjustmentValues] : S \in SUBSET VideoFormat}

\* current_weights[fmt] raises KeyError for a format without a weight
AdjustmentFails(current_weights, adjustments) ==
    \E f \in DOMAIN adjustments : f \notin DOMAIN current_weights

\* max(0.1, current_weights[fmt] + adjustment) for the formats adjusted
AdjustedWeights(current_weights, adjustments) ==
    [f \in DOMAIN current_weights |->
        IF f \in DOMAIN adjustments
        THEN RatMax(WeightFloor, RatAdd(current_weights[f], adjustments[f]))
        ELSE current_weights[f]]

\* manual_optimization; total_videos is what the metrics hold at the time of
\* the call, which manual_optimization never looks at
ManualOptimization(adjustments, total_videos, readOk, applyOk) ==
    /\ opt.status = "none"
    /\ \A f \in DOMAIN format_weight_rows :
          format_weight_rows[f].weight[2] <= MaxOverrideDenominator
    /\ LET current_weights == GetCurrentWeights(format_weight_rows, readOk)
           failed == AdjustmentFails(current_weights, adjustments) \/ ~applyOk
           new_weights == NormalizeWeights(AdjustedWeights(current_weights, adjustments))
       IN  /\ format_weight_rows' =
                 IF failed THEN format_weight_rows
                 ELSE ApplyNewWeights(format_weight_rows, new_weights, now)
           /\ opt' = [status |-> IF failed THEN "manual_error" ELSE "manual_success",
                      total_videos |-> total_videos,
                      before |-> format_weight_rows,
                      performance |-> << >>,
                      adjustments |-> adjustments]
    /\ UNCHANGED <<now, jobs, cost_tracking, pc, format_weights, jobs_to_schedule,
                   slot, budget_remaining, scheduled_jobs, cycle, wpc,
                   kill_switch, automation_enabled, session_weights, peer, call, proc>>

---------------------------------------------------------------------------
\* scripts/run_dashboard.py: _show_settings, "Update Format Weights"

\* the sliders go from 0.1 to 10.0 in steps of 0.1
SliderWeights == {<<1, 10>>, <<1, 1>>, <<10, 1>>}

DashboardUpdateFormatWeights ==
    /\ opt.status = "none"
    /\ \E weights \in [VideoFormat -> SliderWeights] :
          format_weight_rows' =
              [f \in DOMAIN format_weight_rows |->
                  [weight |-> weights[f],
                   last_updated |-> now,
                   reason |-> "Manual update via dashboard"]]
    /\ UNCHANGED <<now, jobs, cost_tracking, pc, format_weights, jobs_to_schedule,
                   slot, budget_remaining, scheduled_jobs, cycle, wpc, opt,
                   kill_switch, automation_enabled, session_weights, peer, call, proc>>

---------------------------------------------------------------------------
\* The clock

AdvanceClock ==
    /\ opt.status = "none"
    /\ now < MaxNow
    /\ now' = now + 1
    /\ UNCHANGED <<jobs, cost_tracking, format_weight_rows, pc, format_weights,
                   jobs_to_schedule, slot, budget_remaining, scheduled_jobs, cycle,
                   wpc, opt,
                   kill_switch, automation_enabled, session_weights, peer, call, proc>>

---------------------------------------------------------------------------
\* scripts/run_worker.py: Worker, and the job actions of scripts/run_dashboard.py

ConfigDailyBudget == 3 * MoneyUnit

ConfigMaxVideosPerDay == 3

\* video_count of _schedule_new_jobs: today's jobs that are not FAILED
WorkerVideoCount ==
    Cardinality({id \in JobsCreatedOn(Today) : jobs[id].status # "failed"})

\* mutant: the day's spend is not subtracted from the budget handed over
WorkerBudgetRemainingWholeBudget(daily_cost) == ConfigDailyBudget

WorkerBudgetRemaining(daily_cost) == ConfigDailyBudget - daily_cost

WorkerMaxJobs(video_count) == ConfigMaxVideosPerDay - video_count

\* _render_video calls render_video(episode=, output_path=, format=); the
\* call binds when every keyword is a parameter of render_video(episode_data,
\* episode=None, output_path=None) and the parameter without default is
\* given; otherwise it raises TypeError
RenderVideoCallAccepted ==
    LET parameters == {"episode_data", "episode", "output_path"}
        required == {"episode_data"}
        arguments == {"episode", "output_path", "format"}
    IN  arguments \subseteq parameters /\ required \subseteq arguments

\* the function in which the processing of one job ends, given what the
\* collaborators do: the generator returns an episode, the checker finds it
\* safe, the renderer produces a file, the upload goes through.
\* check_content_safety returns the tuple (safe, reason) and _generate_episode
\* tests `not` of it, which is true of the empty tuple only
LastStage(generated, safe, rendered, uploaded) ==
    IF ~generated THEN "generate_episode"
    ELSE IF Len(<<safe, "reason">>) = 0 THEN "check_content_safety"
    ELSE IF ~RenderVideoCallAccepted \/ ~rendered THEN "render_video"
    ELSE IF ~uploaded THEN "upload_video"
    ELSE "completed"

\* _process_jobs: every pending job ends the call completed or failed
WorkerProcessJobs ==
    /\ wpc = "process"
    /\ pc = "idle"
    /\ LET pending == {id \in DOMAIN jobs : jobs[id].status = "pending"}
       IN  \E failing \in SUBSET pending :
              /\ \A id \in pending \ failing :
                    LastStage(TRUE, TRUE, TRUE, TRUE) = "completed"
              /\ jobs' = [id \in DOMAIN jobs |->
                            IF id \in failing
                            THEN [jobs[id] EXCEPT !.status = "failed",
                                                  !.error_message = TRUE,
                                                  !.retry_count = @ + 1]
                            ELSE IF id \in pending
                            THEN [jobs[id] EXCEPT !.status = "completed",
                                                  !.youtube_id = TRUE]
                            ELSE jobs[id]]
    /\ wpc' = "schedule"
    /\ UNCHANGED <<now, cost_tracking, format_weight_rows, pc, format_weights,
                   jobs_to_schedule, slot, budget_remaining, scheduled_jobs, cycle, opt,
                   kill_switch, automation_enabled, session_weights, peer, call, proc>>

\* _schedule_new_jobs, the budget check says no: return
WorkerScheduleNewJobsDenied ==
    /\ wpc = "schedule"
    /\ pc = "idle"
    /\ ~CheckBudgetCompliance(CostTrackingOf(Today).total_cost, ConfigDailyBudget,
                              WorkerVideoCount, ConfigMaxVideosPerDay)[1]
    /\ wpc' = "process"
    /\ UNCHANGED <<now, jobs, cost_tracking, format_weight_rows, pc, format_weights,
                   jobs_to_schedule, slot, budget_remaining, scheduled_jobs, cycle, opt,
                   kill_switch, automation_enabled, session_weights, peer, call, proc>>

\* _schedule_new_jobs, the budget check passes: call schedule_jobs
WorkerScheduleNewJobs ==
    /\ wpc = "schedule"
    /\ CheckBudgetCompliance(CostTrackingOf(Today).total_cost, ConfigDailyBudget,
                             WorkerVideoCount, ConfigMaxVideosPerDay)[1]
    /\ \E loadOk, countOk \in BOOLEAN :
          ScheduleJobsBegin(WorkerMaxJobs(WorkerVideoCount),
                            WorkerBudgetRemaining(CostTrackingOf(Today).total_cost),
                            loadOk, countOk)
    /\ wpc' = "scheduling"

\* _schedule_new_jobs logs the list or the error and closes the session
WorkerScheduleNewJobsEnd ==
    /\ wpc = "scheduling"
    /\ ScheduleJobsEnd
    /\ wpc' = "process"

\* schema.py: SystemConfig.automation_enabled, as config.config holds it
ConfigAutomationEnabled == TRUE

\* mutant: the switch is never seen
CheckKillSwitchNever(config_row) == FALSE

\* _check_kill_switch: the row exists and its value is true
CheckKillSwitch(config_row) == config_row # "none" /\ config_row = "true"

\* start, the kill switch is on at the top of the loop: break
WorkerKillSwitchExit ==
    /\ wpc = "process"
    /\ pc = "idle"
    /\ CheckKillSwitch(kill_switch)
    /\ wpc' = "stopped"
    /\ UNCHANGED <<now, jobs, cost_tracking, format_weight_rows, pc, format_weights,
                   jobs_to_schedule, slot, budget_remaining, scheduled_jobs, cycle,
                   opt, kill_switch, automation_enabled, session_weights, peer, call, proc>>

\* start, the kill switch is off and automation is enabled: _process_jobs
WorkerTickProcessJobs ==
    /\ ~CheckKillSwitch(kill_switch)
    /\ ConfigAutomationEnabled
    /\ WorkerProcessJobs

\* _show_settings, the toggle "Kill Switch (STOP ALL PROCESSING)"; without
\* a row the toggle raises AttributeError and nothing is stored
DashboardToggleKillSwitch ==
    /\ kill_switch # "none"
    /\ kill_switch' = IF kill_switch = "true" THEN "false" ELSE "true"
    /\ UNCHANGED <<now, jobs, cost_tracking, format_weight_rows, pc, format_weights,
                   jobs_to_schedule, slot, budget_remaining, scheduled_jobs, cycle,
                   wpc, opt, session_weights, peer, call, proc, automation_enabled>>

\* _show_jobs, "Delete Job"
DashboardDeleteJob ==
    /\ \E id \in DOMAIN jobs :
          jobs' = [j \in DOMAIN jobs \ {id} |-> jobs[j]]
    /\ UNCHANGED <<now, cost_tracking, format_weight_rows, pc, format_weights,
                   jobs_to_schedule, slot, budget_remaining, scheduled_jobs, cycle,
                   wpc, opt,
                   kill_switch, automation_enabled, session_weights, peer, call, proc>>

---------------------------------------------------------------------------
\* scripts/run_worker.py: _process_jobs job by job, each commit a step of its
\* own; scripts/run_dashboard.py: _show_jobs, "Retry Job"

\* job.status = COMPLETED; job.youtube_id = youtube_id
CompleteJob(job) == [job EXCEPT !.status = "completed", !.youtube_id = TRUE]

\* mutant: a failure is stored without counting it
FailJobNotCounted(job) == [job EXCEPT !.status = "failed", !.error_message = TRUE]

\* the except clause of the loop: FAILED, the message, one more retry counted
FailJob(job) ==
    [job EXCEPT !.status = "failed", !.error_message = TRUE, !.retry_count = @ + 1]

\* mutant: the button puts a FAILED job back to PENDING with its message
RetryJobKeepsMessage(job) ==
    IF job.status = "failed" THEN [job EXCEPT !.status = "pending"] ELSE job

\* "Retry Job": a FAILED job goes back to PENDING without its message; for
\* any other status there is only a warning
RetryJob(job) ==
    IF job.status = "failed"
    THEN [job EXCEPT !.status = "pending", !.error_message = FALSE]
    ELSE job

\* start of _process_jobs: the query for the PENDING jobs; none: return
WorkerQueryPendingJobs ==
    /\ wpc = "process"
    /\ pc = "idle"
    /\ ~CheckKillSwitch(kill_switch)
    /\ ConfigAutomationEnabled
    /\ LET pending_jobs == {id \in DOMAIN jobs : jobs[id].status = "pending"}
       IN  IF pending_jobs = {}
           THEN wpc' = "schedule" /\ proc' = NoProc
           ELSE wpc' = "processing"
                /\ proc' = [pending_jobs |-> pending_jobs, job |-> 0]
    /\ UNCHANGED <<now, jobs, cost_tracking, format_weight_rows, pc, format_weights,
                   jobs_to_schedule, slot, budget_remaining, scheduled_jobs, cycle, opt,
                   kill_switch, automation_enabled, session_weights, peer, call>>

\* the next job of the list: status GENERATING, commit. The row of a job
\* deleted since the query cannot be updated: the commit raises, so does
\* the commit of the except clause, and _process_jobs ends in its outer
\* except clause
WorkerJobGenerating ==
    /\ wpc = "processing"
    /\ proc.job = 0
    /\ \E id \in proc.pending_jobs :
          IF id \in DOMAIN jobs
          THEN /\ jobs' = [jobs EXCEPT ![id].status = "generating"]
               /\ proc' = [pending_jobs |-> proc.pending_jobs \ {id}, job |-> id]
               /\ wpc' = wpc
          ELSE /\ jobs' = jobs
               /\ proc' = NoProc
               /\ wpc' = "schedule"
    /\ UNCHANGED <<now, cost_tracking, format_weight_rows, pc, format_weights,
                   jobs_to_schedule, slot, budget_remaining, scheduled_jobs, cycle, opt,
                   kill_switch, automation_enabled, session_weights, peer, call>>

\* episode, video and upload came through (ok means that no collaborator
\* fails): COMPLETED with the youtube id; one of the calls raised: FAILED;
\* commit. A deleted row as above
WorkerJobDone(ok) ==
    /\ wpc = "processing"
    /\ proc.job # 0
    /\ IF proc.job \in DOMAIN jobs
       THEN /\ jobs' = [jobs EXCEPT ![proc.job] =
                           IF LastStage(ok, ok, ok, ok) = "completed"
                           THEN CompleteJob(@) ELSE FailJob(@)]
            /\ proc' = [proc EXCEPT !.job = 0]
            /\ wpc' = wpc
       ELSE /\ jobs' = jobs
            /\ proc' = NoProc
            /\ wpc' = "schedule"
    /\ UNCHANGED <<now, cost_tracking, format_weight_rows, pc, format_weights,
                   jobs_to_schedule, slot, budget_remaining, scheduled_jobs, cycle, opt,
                   kill_switch, automation_enabled, session_weights, peer, call>>

\* the list is exhausted: the session is closed
WorkerEndProcessJobs ==
    /\ wpc = "processing"
    /\ proc.job = 0
    /\ proc.pending_jobs = {}
    /\ wpc' = "schedule"
    /\ proc' = NoProc
    /\ UNCHANGED <<now, jobs, cost_tracking, format_weight_rows, pc, format_weights,
                   jobs_to_schedule, slot, budget_remaining, scheduled_jobs, cycle, opt,
                   kill_switch, automation_enabled, session_weights, peer, call>>

\* _show_jobs, "Retry Job" on the selected job
DashboardRetryJob ==
    /\ \E id \in DOMAIN jobs :
          /\ jobs[id].retry_count <= MaxRetryCount
          /\ jobs' = [jobs EXCEPT ![id] = RetryJob(@)]
    /\ UNCHANGED <<now, cost_tracking, format_weight_rows, pc, format_weights,
                   jobs_to_schedule, slot, budget_remaining, scheduled_jobs, cycle,
                   wpc, opt, kill_switch, automation_enabled, session_weights, peer, call, proc>>

---------------------------------------------------------------------------
\* job_scheduler.py: _create_job in a schedule_jobs call of another process,
\* with its own session on the same database

\* the job row is committed, then _update_cost_tracking queries today's row
PeerCreateJob(format) ==
    /\ peer.pc = "idle"
    /\ CalculateAvailableJobSlots(Cardinality(JobsCreatedOn(Today)), TRUE) > 0
    /\ ~BudgetExceeded(EstimateTotalVideoCost(format), DailyBudget)
    /\ LET id == NewId
       IN  jobs' = [j \in DOMAIN jobs \cup {id} |->
                      IF j = id
                      THEN NewJob(format, EstimateTotalVideoCost(format), Today)
                      ELSE jobs[j]]
    /\ peer' = [pc |-> "read",
                found |-> Today \in DOMAIN cost_tracking,
                row |-> CostTrackingOf(Today),
                cost |-> EstimateTotalVideoCost(format)]
    /\ UNCHANGED <<now, cost_tracking, format_weight_rows, pc, format_weights,
                   jobs_to_schedule, slot, budget_remaining, scheduled_jobs, cycle,
                   wpc, opt, kill_switch, automation_enabled, session_weights, call, proc>>

\* the sums are computed from the row as it was read and written by the
\* commit; a row added for a day that has one by now violates the primary
\* key, and the except clause rolls back
PeerUpdateCostTracking ==
    /\ peer.pc = "read"
    /\ cost_tracking' =
          IF ~peer.found /\ Today \in DOMAIN cost_tracking
          THEN cost_tracking
          ELSE [d \in DOMAIN cost_tracking \cup {Today} |->
                  IF d = Today
                  THEN [openai_cost |-> peer.row.openai_cost + peer.cost,
                        total_cost |-> peer.row.total_cost + peer.cost,
                        video_count |-> peer.row.video_count + 1]
                  ELSE cost_tracking[d]]
    /\ peer' = NoPeer
    /\ UNCHANGED <<now, jobs, format_weight_rows, pc, format_weights,
                   jobs_to_schedule, slot, budget_remaining, scheduled_jobs, cycle,
                   wpc, opt, kill_switch, automation_enabled, session_weights, call, proc>>

---------------------------------------------------------------------------
\* scripts/init_db.py: the seeded store

SeedRow == [weight |-> RatOne, last_updated |-> 0, reason |-> "Initial setup"]

Init ==
    /\ now = 0
    /\ jobs = << >>
    /\ cost_tracking = << >>
    /\ format_weight_rows = [f \in VideoFormat |-> SeedRow]
    /\ pc = "idle"
    /\ format_weights = DefaultFormatWeights
    /\ jobs_to_schedule = 0
    /\ slot = 0
    /\ budget_remaining = 0
    /\ scheduled_jobs = <<>>
    /\ cycle = NoCycle
    /\ wpc = "process"
    /\ opt = NoOpt
    /\ kill_switch = "false"
    /\ automation_enabled = "true"
    /\ session_weights = NoSession
    /\ peer = NoPeer
    /\ call = NoCall
    /\ proc = NoProc

---------------------------------------------------------------------------
\* Spec: schedule_jobs called with any hints

BudgetHints ==
    {k * EstimateTotalVideoCost("talking_object") - e :
        k \in 1..MaxBudgetJobs, e \in {0, 1}} \cup {0, DailyBudget}

CallScheduleJobs ==
    \E max_jobs \in 0..MaxJobsHint, budget \in BudgetHints, loadOk, countOk \in BOOLEAN :
        /\ wpc = "process"
        /\ ScheduleJobsBegin(max_jobs, budget, loadOk, countOk)
        /\ UNCHANGED wpc

RunScheduleSlot ==
    \E format \in VideoFormat, costOk, insertOk, ledgerOk \in BOOLEAN :
        /\ ScheduleSlot(format, costOk, insertOk, ledgerOk)
        /\ UNCHANGED wpc

RunScheduleLoopEnd == ScheduleLoopEnd /\ UNCHANGED wpc

ReturnScheduleJobs == ScheduleJobsEnd /\ wpc = "process" /\ UNCHANGED wpc

Next ==
    \/ CallScheduleJobs
    \/ RunScheduleSlot
    \/ RunScheduleLoopEnd
    \/ ReturnScheduleJobs

Spec == Init /\ [][Next]_vars

---------------------------------------------------------------------------
\* SpecLoop: one control loop schedules automatically; an operator deletes
\* jobs. The budget check of _schedule_new_jobs never refuses here: it counts
\* the jobs that are not FAILED, and every job a tick has processed is FAILED

NextLoop ==
    \/ WorkerProcessJobs
    \/ WorkerScheduleNewJobs
    \/ RunScheduleSlot
    \/ RunScheduleLoopEnd
    \/ WorkerScheduleNewJobsEnd
    \/ DashboardDeleteJob

SpecLoop == Init /\ [][NextLoop]_vars

---------------------------------------------------------------------------
\* SpecOpt: the optimizer called at any time, an operator moving the sliders

\* the store as init_db.py seeds it, or as create_all leaves it: no rows
InitOpt ==
    /\ now = 0
    /\ jobs = << >>
    /\ cost_tracking = << >>
    /\ format_weight_rows \in {[f \in VideoFormat |-> SeedRow], << >>}
    /\ pc = "idle"
    /\ format_weights = DefaultFormatWeights
    /\ jobs_to_schedule = 0
    /\ slot = 0
    /\ budget_remaining = 0
    /\ scheduled_jobs = <<>>
    /\ cycle = NoCycle
    /\ wpc = "process"
    /\ opt = NoOpt
    /\ kill_switch = "false"
    /\ automation_enabled = "true"
    /\ session_weights = NoSession
    /\ peer = NoPeer
    /\ call = NoCall
    /\ proc = NoProc

CallOptimizeFormatWeights ==
    \E performance \in Performances, readOk, applyOk \in BOOLEAN :
        OptimizeFormatWeights(performance, readOk, applyOk)

NextOpt ==
    \/ CallOptimizeFormatWeights
    \/ OptimizeFormatWeightsEnd
    \/ DashboardUpdateFormatWeights
    \/ AdvanceClock

SpecOpt == InitOpt /\ [][NextOpt]_vars

---------------------------------------------------------------------------
\* SpecManual: the store as seeding, optimizer runs and manual overrides make it

CallManualOptimization ==
    \E adjustments \in Adjustments, total_videos \in {0, MinSamples},
       readOk, applyOk \in BOOLEAN :
        ManualOptimization(adjustments, total_videos, readOk, applyOk)

NextManual ==
    \/ CallOptimizeFormatWeights
    \/ OptimizeFormatWeightsEnd
    \/ CallManualOptimization

SpecManual == InitOpt /\ [][NextManual]_vars

---------------------------------------------------------------------------
\* SpecConc: an optimizer run in one process, a scheduler that loads the
\* weights in another

RunBeginApplyNewWeights ==
    \E performance \in Performances, readOk \in BOOLEAN :
        BeginApplyNewWeights(performance, readOk)

RunApplyWeightRecord == \E fmt \in VideoFormat : ApplyWeightRecord(fmt)

RunEndApplyNewWeights == \E commitOk \in BOOLEAN : EndApplyNewWeights(commitOk)

\* a cycle that finds no slot to fill: it loads the weights and returns
CallScheduleJobsNoSlot ==
    \E loadOk \in BOOLEAN :
        /\ wpc = "process"
        /\ ScheduleJobsBegin(0, DailyBudget, loadOk, TRUE)
        /\ UNCHANGED wpc

NextConc ==
    \/ RunBeginApplyNewWeights
    \/ RunApplyWeightRecord
    \/ RunEndApplyNewWeights
    \/ ReturnApplyNewWeights
    \/ CallScheduleJobsNoSlot
    \/ RunScheduleLoopEnd
    \/ ReturnScheduleJobs

SpecConc == InitOpt /\ [][NextConc]_vars

---------------------------------------------------------------------------
\* SpecRace: two scheduling cycles in two processes, no storage failure

\* schedule_jobs with the hints a worker computes from config.config
CallScheduleJobsFromConfig ==
    /\ wpc = "process"
    /\ ScheduleJobsBegin(WorkerMaxJobs(WorkerVideoCount),
                         WorkerBudgetRemaining(CostTrackingOf(Today).total_cost),
                         TRUE, TRUE)
    /\ UNCHANGED wpc

RunScheduleSlotNoFailure ==
    \E format \in VideoFormat :
        /\ ScheduleSlot(format, TRUE, TRUE, TRUE)
        /\ UNCHANGED wpc

RunPeerCreateJob == \E format \in VideoFormat : PeerCreateJob(format)

NextRace ==
    \/ CallScheduleJobsFromConfig
    \/ RunScheduleSlotNoFailure
    \/ RunScheduleLoopEnd
    \/ ReturnScheduleJobs
    \/ RunPeerCreateJob
    \/ PeerUpdateCostTracking

SpecRace == Init /\ [][NextRace]_vars

---------------------------------------------------------------------------
\* SpecEdit: an operator moves the sliders between and during the cycles

CallScheduleJobsAnyLoad ==
    \E loadOk \in BOOLEAN :
        /\ wpc = "process"
        /\ ScheduleJobsBegin(WorkerMaxJobs(WorkerVideoCount),
                             WorkerBudgetRemaining(CostTrackingOf(Today).total_cost),
                             loadOk, TRUE)
        /\ UNCHANGED wpc

NextEdit ==
    \/ CallScheduleJobsAnyLoad
    \/ RunScheduleSlotNoFailure
    \/ RunScheduleLoopEnd
    \/ ReturnScheduleJobs
    \/ DashboardUpdateFormatWeights

SpecEdit == Init /\ [][NextEdit]_vars

---------------------------------------------------------------------------
\* SpecWorker: the control loop with its kill switch, an operator at the toggle

\* the config table as init_db.py seeds it, or as create_all leaves it
InitWorker ==
    /\ now = 0
    /\ jobs = << >>
    /\ cost_tracking = << >>
    /\ format_weight_rows = [f \in VideoFormat |-> SeedRow]
    /\ pc = "idle"
    /\ format_weights = DefaultFormatWeights
    /\ jobs_to_schedule = 0
    /\ slot = 0
    /\ budget_remaining = 0
    /\ scheduled_jobs = <<>>
    /\ cycle = NoCycle
    /\ wpc = "process"
    /\ opt = NoOpt
    /\ kill_switch \in {"false", "none"}
    /\ automation_enabled = IF kill_switch = "none" THEN "none" ELSE "true"
    /\ session_weights = NoSession
    /\ peer = NoPeer
    /\ call = NoCall
    /\ proc = NoProc

NextWorker ==
    \/ WorkerKillSwitchExit
    \/ WorkerTickProcessJobs
    \/ WorkerScheduleNewJobs
    \/ RunScheduleSlot
    \/ RunScheduleLoopEnd
    \/ WorkerScheduleNewJobsEnd
    \/ DashboardToggleKillSwitch

SpecWorker == InitWorker /\ [][NextWorker]_vars

---------------------------------------------------------------------------
\* SpecTick: the control loop left running; the thread of start() takes its
\* next step whenever it has one (time.sleep returns, no call blocks)

\* the weights seeded just now, seeded more than a cooldown ago, or no row
InitTick ==
    /\ now = 0
    /\ jobs = << >>
    /\ cost_tracking = << >>
    /\ format_weight_rows \in
          {[f \in VideoFormat |-> SeedRow],
           [f \in VideoFormat |->
               [SeedRow EXCEPT !.last_updated = 0 - (CooldownPeriod + 1)]],
           << >>}
    /\ pc = "idle"
    /\ format_weights = DefaultFormatWeights
    /\ jobs_to_schedule = 0
    /\ slot = 0
    /\ budget_remaining = 0
    /\ scheduled_jobs = <<>>
    /\ cycle = NoCycle
    /\ wpc = "process"
    /\ opt = NoOpt
    /\ kill_switch \in {"false", "none"}
    /\ automation_enabled = IF kill_switch = "none" THEN "none" ELSE "true"
    /\ session_weights = NoSession
    /\ peer = NoPeer
    /\ call = NoCall
    /\ proc = NoProc

\* a step of the thread that runs start(), the storage not failing
WorkerStep ==
    \/ WorkerKillSwitchExit
    \/ WorkerTickProcessJobs
    \/ WorkerScheduleNewJobs
    \/ RunScheduleSlotNoFailure
    \/ RunScheduleLoopEnd
    \/ WorkerScheduleNewJobsEnd

NextTick ==
    \/ WorkerStep
    \/ DashboardToggleKillSwitch

SpecTick == InitTick /\ [][NextTick]_vars /\ WF_vars(WorkerStep)

---------------------------------------------------------------------------
\* SpecJobs: the life of a job: the control loop creates and processes jobs,
\* an operator retries and deletes them

RunWorkerJobDone == \E ok \in BOOLEAN : WorkerJobDone(ok)

\* "Delete Job", as long as the ledger counts few jobs that are gone
DashboardDeleteFewJobs ==
    /\ CostTrackingOf(Today).video_count - Cardinality(DOMAIN jobs) < MaxDeletedJobs
    /\ DashboardDeleteJob

NextJobs ==
    \/ WorkerQueryPendingJobs
    \/ WorkerJobGenerating
    \/ RunWorkerJobDone
    \/ WorkerEndProcessJobs
    \/ WorkerScheduleNewJobsDenied
    \/ WorkerScheduleNewJobs
    \/ RunScheduleSlotNoFailure
    \/ RunScheduleLoopEnd
    \/ WorkerScheduleNewJobsEnd
    \/ DashboardRetryJob
    \/ DashboardDeleteFewJobs

SpecJobs == Init /\ [][NextJobs]_vars

---------------------------------------------------------------------------
\* SpecCalls: the functions that read and return, called with any arguments

\* the hours at which should_optimize is called: at once, and around the
\* end of the cooldown of rows written in the first hours
CallTimes == {0} \cup {CooldownPeriod + d : d \in (0 - MaxOverdue)..MaxOverdue}

\* weights a caller can have left in JobScheduler.format_weights
CallWeights == {RatZero, <<1, 10>>, RatOne}

\* daily_cost and budget as the callers of check_budget_compliance pass them
CallCosts ==
    {0, EstimateTotalVideoCost("talking_object"),
     ConfigDailyBudget - 1, ConfigDailyBudget, ConfigDailyBudget + 1}

CallBudgets == {0, ConfigDailyBudget}

\* the weight rows seeded at hour 0, one of them written again an hour
\* later, or no row
InitCalls ==
    /\ now \in CallTimes
    /\ jobs = << >>
    /\ cost_tracking = << >>
    /\ format_weight_rows \in
          {[f \in VideoFormat |-> SeedRow],
           [f \in VideoFormat |->
               IF f = "talking_object"
               THEN [SeedRow EXCEPT !.last_updated = MaxNow] ELSE SeedRow],
           << >>}
    /\ pc = "idle"
    /\ format_weights \in [VideoFormat -> CallWeights]
    /\ jobs_to_schedule = 0
    /\ slot = 0
    /\ budget_remaining = 0
    /\ scheduled_jobs = <<>>
    /\ cycle = NoCycle
    /\ wpc = "process"
    /\ opt = NoOpt
    /\ kill_switch = "false"
    /\ automation_enabled = "true"
    /\ session_weights = NoSession
    /\ peer = NoPeer
    /\ call = NoCall
    /\ proc = NoProc

\* check_budget_compliance(daily_cost, budget, video_count, max_videos)
CallCheckBudgetCompliance ==
    /\ \E daily_cost \in CallCosts, budget \in CallBudgets,
          video_count \in 0..(ConfigMaxVideosPerDay + 1),
          max_videos \in {0, ConfigMaxVideosPerDay} :
          call' = [fn |-> "check_budget_compliance",
                   args |-> <<daily_cost, budget, video_count, max_videos>>,
                   ok |-> TRUE,
                   ret |-> CheckBudgetCompliance(daily_cost, budget,
                                                 video_count, max_videos)]
    /\ UNCHANGED <<now, jobs, cost_tracking, format_weight_rows, pc, format_weights,
                   jobs_to_schedule, slot, budget_remaining, scheduled_jobs, cycle,
                   wpc, opt, kill_switch, automation_enabled, session_weights, peer, proc>>

\* should_optimize(session); a query that raises is logged and gives False
CallShouldOptimize ==
    /\ \E readOk \in BOOLEAN :
          call' = [fn |-> "should_optimize",
                   args |-> << >>,
                   ok |-> readOk,
                   ret |-> IF readOk THEN ShouldOptimize(format_weight_rows, now)
                           ELSE FALSE]
    /\ UNCHANGED <<now, jobs, cost_tracking, format_weight_rows, pc, format_weights,
                   jobs_to_schedule, slot, budget_remaining, scheduled_jobs, cycle,
                   wpc, opt, kill_switch, automation_enabled, session_weights, peer, proc>>

\* _select_format_based_on_weights()
CallSelectFormatBasedOnWeights ==
    /\ \E format \in SelectFormatBasedOnWeights(format_weights) :
          call' = [fn |-> "_select_format_based_on_weights",
                   args |-> << >>,
                   ok |-> TRUE,
                   ret |-> format]
    /\ UNCHANGED <<now, jobs, cost_tracking, format_weight_rows, pc, format_weights,
                   jobs_to_schedule, slot, budget_remaining, scheduled_jobs, cycle,
                   wpc, opt, kill_switch, automation_enabled, session_weights, peer, proc>>

NextCalls ==
    \/ CallCheckBudgetCompliance
    \/ CallShouldOptimize
    \/ CallSelectFormatBasedOnWeights

SpecCalls == InitCalls /\ [][NextCalls]_vars

---------------------------------------------------------------------------
\* Properties of the scheduling cycle

RECURSIVE JobsCost(_)
JobsCost(S) ==
    IF S = {} THEN 0
    ELSE LET id == CHOOSE x \in S : TRUE
         IN  jobs[id].generation_cost + jobs[id].render_cost + JobsCost(S \ {id})

\* C1: in every cycle of schedule_jobs the estimated costs of the jobs the
\* cycle created sum to at most the budget_remaining it was called with.
C1_CycleCostWithinBudgetHint ==
    pc # "idle" => cycle.cost <= cycle.budget_hint

\* a cycle that created two jobs and then refused the third slot on budget
C1_Witness ==
    /\ pc = "returned"
    /\ cycle.created = 2
    /\ cycle.outcome = "budget_exceeded"
    /\ cycle.budget_hint < DailyBudget

\* C2: a cycle creates at most min(max_jobs, dailyCap - jobsCreatedToday)
\* jobs, jobsCreatedToday counting every job of today whatever its status;
\* with the cap already reached it creates none.
C2_JobsCreatedWithinSlots ==
    pc # "idle" =>
        cycle.created <= Min(cycle.max_jobs, MaxDailyVideos - cycle.daily_jobs)

\* a cycle asked for more jobs than the cap leaves, with the whole budget
C2_Witness ==
    /\ pc = "returned"
    /\ cycle.daily_jobs = 1
    /\ cycle.max_jobs > 2
    /\ cycle.budget_hint = DailyBudget
    /\ cycle.created = 2

\* C3: outside a slot, the day's ledger counts exactly the jobs persisted
\* that day and totals their estimated costs, also after a cycle whose
\* ledger update failed.
C3_JobAndLedgerOneUnit ==
    /\ CostTrackingOf(Today).video_count = Cardinality(JobsCreatedOn(Today))
    /\ CostTrackingOf(Today).total_cost = JobsCost(JobsCreatedOn(Today))

\* C4: under the control loop alone the day's ledger total never exceeds
\* the configured daily budget.
C4_LedgerWithinDailyBudget ==
    \A d \in DOMAIN cost_tracking : cost_tracking[d].total_cost <= ConfigDailyBudget

\* the loop's cycle is refused on budget: one more job would overspend
C4_Witness ==
    /\ wpc = "scheduling"
    /\ cycle.outcome = "budget_exceeded"
    /\ CostTrackingOf(Today).total_cost + EstimateTotalVideoCost("talking_object")
          > ConfigDailyBudget

\* C8: a failure of the cost estimate skips that slot only; the cycle goes on
\* with the next slot and returns normally.
C8_CostFailureSkipsSlotOnly ==
    cycle.outcome = "cost_error" => pc = "loop"

\* C9: when the job row of slot k cannot be persisted, that step changes
\* neither the jobs nor the ledger and the cycle ends in SchedulingError;
\* from there the caller gets the error and no further slot is attempted.
C9_InsertFailureAbortsCycle ==
    [][/\ (pc = "loop" /\ cycle'.attempts = cycle.attempts + 1
              /\ cycle'.outcome = "insert_error")
          => (jobs' = jobs /\ cost_tracking' = cost_tracking /\ pc' = "raised")
       /\ pc = "raised"
          => (pc' = "idle" /\ jobs' = jobs /\ cost_tracking' = cost_tracking)]_vars

\* the second slot failed to persist after the first was committed
C9_Witness ==
    /\ pc = "raised"
    /\ cycle.outcome = "insert_error"
    /\ cycle.failed_at = 2
    /\ cycle.created = 1
    /\ CostTrackingOf(Today).video_count >= 1
    /\ jobs_to_schedule > 2

\* C10: a budget refusal ends the cycle: that step creates no job and
\* returns, and no later slot is attempted.
C10_BudgetRefusalEndsCycle ==
    [][/\ (pc = "loop" /\ cycle'.attempts = cycle.attempts + 1
              /\ cycle'.outcome = "budget_exceeded")
          => (jobs' = jobs /\ cost_tracking' = cost_tracking /\ pc' = "returned")
       /\ (pc = "returned" /\ cycle.refused_at > 0)
          => (pc' = "idle" /\ jobs' = jobs /\ cost_tracking' = cost_tracking)]_vars

\* refused in the second slot with a third slot still open
C10_Witness ==
    /\ pc = "returned"
    /\ cycle.refused_at = 2
    /\ cycle.created = 1
    /\ jobs_to_schedule > 2

---------------------------------------------------------------------------
\* Properties of the optimizer

StoredWeights == [f \in DOMAIN format_weight_rows |-> format_weight_rows[f].weight]

WeightsBefore == [f \in DOMAIN opt.before |-> opt.before[f].weight]

\* C5: after a successful automatic optimizer run every stored weight is at
\* least the floor 0.1.
C5_WeightsAtLeastFloor ==
    opt.status = "success" =>
        \A f \in DOMAIN format_weight_rows : RatLe(WeightFloor, StoredWeights[f])

\* C6: after a successful automatic optimizer run that changed the weights,
\* every format has a weight and the weights sum to the number of formats.
C6_WeightsSumToFormatCount ==
    (opt.status = "success" /\ StoredWeights # WeightsBefore) =>
        /\ DOMAIN format_weight_rows = VideoFormat
        /\ RatSum(StoredWeights, VideoFormat) = <<Cardinality(VideoFormat), 1>>

\* a run that changed weights whose sum was not the number of formats
C6_Witness ==
    /\ opt.status = "success"
    /\ DOMAIN opt.before = VideoFormat
    /\ StoredWeights # WeightsBefore
    /\ RatLt(<<Cardinality(VideoFormat), 1>>, RatSum(WeightsBefore, VideoFormat))

\* C7: a call with fewer than minSamples videos in total answers
\* insufficient_data and leaves every row of the store as it was: weight,
\* last_updated and reason.
C7_InsufficientDataChangesNothing ==
    (opt.status # "none" /\ opt.total_videos < MinSamples) =>
        /\ opt.status = "insufficient_data"
        /\ format_weight_rows = opt.before

\* two videos in all, rows older than the call: a run would have rewritten them
C7_Witness ==
    /\ opt.status = "insufficient_data"
    /\ opt.total_videos = 2
    /\ DOMAIN format_weight_rows = VideoFormat
    /\ \A f \in VideoFormat : format_weight_rows[f].last_updated < now

\* Scenario C: scores 7, 2 and 1 out of 10, i.e. target shares 0.7, 0.2, 0.1
ScenarioCPerformance ==
    [f \in VideoFormat |->
        CASE f = "talking_object" -> [count |-> 10, avg_views |-> 0, avg_pct |-> 10]
          [] f = "absurd_motivation" -> [count |-> 2, avg_views |-> 6, avg_pct |-> 0]
          [] f = "nothing_happens" -> [count |-> 1, avg_views |-> 3, avg_pct |-> 0]]

\* 1.2, 0.8, 0.8 scaled by 3 / 2.8
ScenarioCWeights ==
    [f \in VideoFormat |-> IF f = "talking_object" THEN <<9, 7>> ELSE <<6, 7>>]

\* C11: a successful run on Scenario C (all weights 1.0, target shares 0.7,
\* 0.2, 0.1) stores 9/7 for the first format and 6/7 for the two others,
\* so the first ends above the others.
C11_ScenarioCWeights ==
    (/\ opt.status = "success"
     /\ opt.performance = ScenarioCPerformance
     /\ WeightsBefore = DefaultFormatWeights)
        => StoredWeights = ScenarioCWeights

---------------------------------------------------------------------------
\* Properties of the manual override

\* C12: a manual override is applied whatever the number of samples and the
\* time since the last run: a call that ends in success has rewritten every
\* row at the time of the call with the adjusted, renormalized weights (the
\* stored weights as base, or 1.0 each when they could not be read).
C12_ManualOverrideApplied ==
    opt.status = "manual_success" =>
        /\ \A f \in DOMAIN opt.before : format_weight_rows[f].last_updated = now
        /\ StoredWeights \in
              {NormalizeWeights(AdjustedWeights(WeightsBefore, opt.adjustments)),
               NormalizeWeights(AdjustedWeights(DefaultFormatWeights, opt.adjustments))}

\* fewer than minSamples videos and rows written by an automatic run less
\* than the cooldown ago: both gates of the automatic path say no
C12_Witness ==
    /\ opt.status = "manual_success"
    /\ opt.total_videos < MinSamples
    /\ DOMAIN opt.before = VideoFormat
    /\ \A f \in VideoFormat : opt.before[f].reason = AutomaticReason
    /\ ~ShouldOptimize(opt.before, now)
    /\ StoredWeights # WeightsBefore

\* C13: after a manual override no row carries the reason an automatic
\* optimizer run writes.
C13_ManualReasonRecorded ==
    opt.status = "manual_success" =>
        \A f \in DOMAIN format_weight_rows :
            format_weight_rows[f].reason # AutomaticReason

\* C14: after a manual override every stored weight is at least the floor
\* 0.1 and the weights sum to the number of formats stored.
C14_ManualFloorAndSum ==
    opt.status = "manual_success" =>
        /\ \A f \in DOMAIN format_weight_rows : RatLe(WeightFloor, StoredWeights[f])
        /\ RatSum(StoredWeights, DOMAIN format_weight_rows)
              = <<Cardinality(DOMAIN format_weight_rows), 1>>

---------------------------------------------------------------------------
\* Properties of the weight update as a transaction

\* C15: an optimizer run that fails while persisting leaves every row of
\* the store as it was before the run: weight, last_updated and reason.
C15_FailedRunAppliesNothing ==
    opt.status = "error" => format_weight_rows = opt.before

\* the run failed after it had changed the record of some formats, not all,
\* to a weight other than the stored one
C15_Witness ==
    /\ opt.status = "error"
    /\ DOMAIN opt.before = VideoFormat
    /\ session_weights.touched # {}
    /\ session_weights.touched # VideoFormat
    /\ \E f \in session_weights.touched :
          session_weights.new_weights[f] # opt.before[f].weight

\* C17: the weights a scheduler has loaded, also while an optimizer run was
\* changing its records, sum to the number of formats: all of them are from
\* one committed set.
C17_LoadedWeightsFromOneCommit ==
    RatSum(format_weights, VideoFormat) = <<Cardinality(VideoFormat), 1>>

\* the scheduler loaded while one or two records were changed and not yet
\* committed, and it holds the stored weight, not the changed one
C17_Witness ==
    /\ pc = "loop"
    /\ cycle.uncommitted_at_load \in {1, 2}
    /\ opt.status = "applying"
    /\ \E f \in DOMAIN session_weights.rows \cap DOMAIN format_weight_rows :
          /\ session_weights.rows[f].weight # format_weight_rows[f].weight
          /\ format_weights[f] = format_weight_rows[f].weight

---------------------------------------------------------------------------
\* Properties of two scheduling cycles that race

\* C16: once two cycles of two processes have both finished, with no storage
\* failure, the day's ledger counts every job they created and totals the
\* estimated costs of all of them.
C16_NoLedgerIncrementLost ==
    (pc = "idle" /\ peer.pc = "idle") =>
        /\ CostTrackingOf(Today).video_count = Cardinality(JobsCreatedOn(Today))
        /\ CostTrackingOf(Today).total_cost = JobsCost(JobsCreatedOn(Today))

---------------------------------------------------------------------------
\* Properties of the weights a cycle uses

\* C18: every slot of a cycle draws its format with the weights the store
\* holds when the slot is filled (or with 1.0 each when the load failed),
\* also when the store was updated after the cycle began.
C18_SlotUsesStoredWeights ==
    [][(pc = "loop" /\ cycle'.attempts = cycle.attempts + 1)
          => format_weights \in {StoredWeights, DefaultFormatWeights}]_vars

\* C19: the step that begins a cycle leaves the scheduler with the weight
\* the store holds for each format at that moment, or with 1.0 for each
\* when the store cannot be read: never with a weight kept from an earlier
\* cycle.
C19_CycleReloadsWeights ==
    [][(pc = "idle" /\ pc' = "loop")
          => format_weights' \in {StoredWeights, DefaultFormatWeights}]_vars

\* a cycle after an earlier one created a job, begun with weights the
\* operator set on the dashboard
C19_Witness ==
    /\ pc = "loop"
    /\ cycle.attempts = 0
    /\ cycle.daily_jobs > 0
    /\ \A f \in VideoFormat :
          format_weight_rows[f].reason = "Manual update via dashboard"
    /\ format_weights = StoredWeights
    /\ format_weights # DefaultFormatWeights

---------------------------------------------------------------------------
\* Properties of the kill switch

\* C20: a tick that begins with the kill switch set leaves the loop at once:
\* it processes no job and starts no scheduling cycle; and a worker that
\* has left the loop creates no job and changes no job from then on.
C20_KillSwitchStopsWorker ==
    [][/\ (wpc = "process" /\ kill_switch = "true" /\ wpc' # wpc)
          => (wpc' = "stopped" /\ jobs' = jobs /\ cost_tracking' = cost_tracking
              /\ pc' = pc)
       /\ wpc = "stopped"
          => (wpc' = "stopped" /\ jobs' = jobs /\ cost_tracking' = cost_tracking
              /\ pc' = "idle")]_vars

\* the worker stopped with pending jobs it would have processed in this tick
C20_Witness ==
    /\ wpc = "stopped"
    /\ kill_switch = "true"
    /\ \E id \in DOMAIN jobs : jobs[id].status = "pending"
    /\ Cardinality(JobsCreatedOn(Today)) < MaxDailyVideos

---------------------------------------------------------------------------
\* Properties of the control loop and the optimizer's cadence

\* C21: while the control loop keeps running with the kill switch off, once
\* the cooldown since the last change of the weights has elapsed (or no
\* weight is stored), an optimizer run eventually happens.
C21_OptimizerRunsWhenDue ==
    ([](wpc # "stopped" /\ kill_switch # "true"))
        => (ShouldOptimize(format_weight_rows, now) ~> (opt.status # "none"))

---------------------------------------------------------------------------
\* Properties of the functions that read and return

\* C22: a call of check_budget_compliance changes nothing but its own
\* result, and the result is fixed by the arguments: not compliant for the
\* video count when video_count >= max_videos, whatever the costs are;
\* otherwise not compliant for the budget when daily_cost >= budget;
\* otherwise compliant.
C22_CheckBudgetCompliance ==
    [][call'.fn = "check_budget_compliance" /\ call' # call
          => LET daily_cost == call'.args[1]
                 budget == call'.args[2]
                 video_count == call'.args[3]
                 max_videos == call'.args[4]
             IN  /\ call'.ret[1] = (video_count < max_videos /\ daily_cost < budget)
                 /\ video_count >= max_videos => call'.ret[2] = "max_videos"
                 /\ video_count < max_videos /\ daily_cost >= budget
                       => call'.ret[2] = "budget"
                 /\ call'.ret[1] => call'.ret[2] = "compliant"
                 /\ UNCHANGED <<now, jobs, cost_tracking, format_weight_rows, pc,
                                format_weights, jobs_to_schedule, slot,
                                budget_remaining, scheduled_jobs, cycle, wpc, opt,
                                kill_switch, automation_enabled, session_weights, peer, proc>>]_vars

\* a call with the video count at its maximum and the budget used up
C22_Witness ==
    /\ call.fn = "check_budget_compliance"
    /\ call.args[3] >= call.args[4]
    /\ call.args[1] >= call.args[2]
    /\ call.args[2] > 0
    /\ call.ret = <<FALSE, "max_videos">>

---------------------------------------------------------------------------
\* Properties of the budget test of a slot

\* C23: a slot whose estimate can be computed and whose job can be stored is
\* filled if and only if the estimate is at most the remaining budget, an
\* estimate equal to the remainder included, and the cycle stops on budget
\* exactly when the remainder is below the estimate; so a cycle that
\* returns has created as many jobs as the budget it was called with pays
\* for, or as many as it had slots: with a budget of k estimates and more
\* than k slots, exactly k jobs.
C23_SlotFilledIffAffordable ==
    [][\A format \in VideoFormat :
          LET estimated_cost == EstimateTotalVideoCost(format)
          IN  /\ (pc = "loop" /\ cycle'.attempts = cycle.attempts + 1
                     /\ cycle'.outcome \in {"created", "budget_exceeded"})
                 => /\ (cycle'.outcome = "created")
                          <=> (estimated_cost <= budget_remaining)
                    /\ (cycle'.outcome = "created")
                          <=> (Cardinality(DOMAIN jobs') = Cardinality(DOMAIN jobs) + 1)
                    /\ (pc' = "returned") <=> (budget_remaining < estimated_cost)
              /\ (pc = "loop" /\ pc' = "returned")
                 => cycle'.created =
                       Min(jobs_to_schedule, cycle.budget_hint \div estimated_cost)]_vars

\* a cycle called with the price of two jobs and more than two slots: the
\* second job cost exactly what was left, and the third slot was refused
C23_Witness ==
    /\ pc = "returned"
    /\ cycle.daily_jobs = 0
    /\ cycle.budget_hint = MaxBudgetJobs * EstimateTotalVideoCost("talking_object")
    /\ jobs_to_schedule > MaxBudgetJobs
    /\ cycle.created = MaxBudgetJobs
    /\ cycle.refused_at = MaxBudgetJobs + 1
    /\ budget_remaining = 0

\* C24: the format selected is always one of the formats; a format of
\* weight zero is not selected while another format has a positive weight;
\* and with every weight zero the selection still returns, and can return
\* each of the formats.
C24_SelectionRespectsWeights ==
    /\ call.fn = "_select_format_based_on_weights"
          => /\ call.ret \in VideoFormat
             /\ format_weights[call.ret] = RatZero
                   => \A f \in VideoFormat : format_weights[f] = RatZero
    /\ (\A f \in VideoFormat : format_weights[f] = RatZero)
          => \A f \in VideoFormat : f \in SelectFormatBasedOnWeights(format_weights)

\* a selection made with every weight zero
C24_Witness ==
    /\ call.fn = "_select_format_based_on_weights"
    /\ \A f \in VideoFormat : format_weights[f] = RatZero
    /\ call.ret = "nothing_happens"

\* C25: should_optimize answers true exactly when the time since the newest
\* weight record is at least the cooldown of 24 hours: true at exactly 24
\* hours, false before.
C25_CooldownGate ==
    (call.fn = "should_optimize" /\ call.ok /\ DOMAIN format_weight_rows # {})
        => \E f \in DOMAIN format_weight_rows :
              /\ \A g \in DOMAIN format_weight_rows :
                    format_weight_rows[g].last_updated
                       <= format_weight_rows[f].last_updated
              /\ call.ret <=> (now - format_weight_rows[f].last_updated >= CooldownPeriod)

---------------------------------------------------------------------------
\* Properties of the life of a job

\* PENDING, GENERATING, RENDERING, UPLOADING in this order, then one of
\* COMPLETED, FAILED, REJECTED
TransitionTable ==
    {<<"pending", "generating">>, <<"generating", "rendering">>,
     <<"rendering", "uploading">>, <<"uploading", "completed">>,
     <<"uploading", "failed">>, <<"uploading", "rejected">>}

\* C26: every change of a job's status is a transition of the table; in
\* particular a job becomes COMPLETED only from UPLOADING.
C26_StatusFollowsTransitionTable ==
    [][\A id \in DOMAIN jobs \cap DOMAIN jobs' :
          jobs'[id].status # jobs[id].status
             => <<jobs[id].status, jobs'[id].status>> \in TransitionTable]_vars

C28_RetryCount ==
    [][/\ \A id \in DOMAIN jobs' \ DOMAIN jobs : jobs'[id].retry_count = 0
       /\ \A id \in DOMAIN jobs \cap DOMAIN jobs' :
             jobs'[id].retry_count =
                jobs[id].retry_count
                   + (IF jobs[id].status # "failed" /\ jobs'[id].status = "failed"
                      THEN 1 ELSE 0)]_vars

\* a job that failed, was retried and failed again, next to one that
\* failed once and is being processed again
C28_Witness ==
    /\ \E id \in DOMAIN jobs :
          /\ jobs[id].status = "failed"
          /\ jobs[id].retry_count = 2
    /\ \E id \in DOMAIN jobs :
          /\ jobs[id].status = "generating"
          /\ jobs[id].retry_count = 1

---------------------------------------------------------------------------
\* Properties of the ledger

\* C29: the total cost of a day's ledger row is never negative and no step
\* lowers it: whatever a step does, a failed job creation included, the
\* day's row is still there with a total at least as high as before.
C29_LedgerTotalNeverDecreases ==
    [][\A d \in DOMAIN cost_tracking :
          /\ cost_tracking[d].total_cost >= 0
          /\ d \in DOMAIN cost_tracking'
          /\ cost_tracking'[d].total_cost >= cost_tracking[d].total_cost]_vars

\* C30: the step that records the spend of a created job leaves today's
\* row, made from zeros if there was none, with exactly the job's estimated
\* cost added to openai_cost and to total_cost and 1 added to video_count,
\* and the rows of other days as they were; so openai_cost and total_cost
\* are equal in every row at all times.
C30_RecordSpend ==
    [][/\ (pc = "loop" /\ cycle'.attempts = cycle.attempts + 1
              /\ cycle'.outcome = "created")
          => \E id \in DOMAIN jobs' \ DOMAIN jobs :
                LET estimated_cost == jobs'[id].generation_cost + jobs'[id].render_cost
                    before == IF Today \in DOMAIN cost_tracking
                              THEN cost_tracking[Today]
                              ELSE [openai_cost |-> 0, total_cost |-> 0,
                                    video_count |-> 0]
                IN  /\ DOMAIN cost_tracking' = DOMAIN cost_tracking \cup {Today}
                    /\ cost_tracking'[Today] =
                          [openai_cost |-> before.openai_cost + estimated_cost,
                           total_cost |-> before.total_cost + estimated_cost,
                           video_count |-> before.video_count + 1]
                    /\ \A d \in DOMAIN cost_tracking \ {Today} :
                          cost_tracking'[d] = cost_tracking[d]
       /\ \A d \in DOMAIN cost_tracking' :
             cost_tracking'[d].openai_cost = cost_tracking'[d].total_cost]_vars

\* the second job of the day has been recorded: the first made the row
C30_Witness ==
    /\ pc = "loop"
    /\ cycle.outcome = "created"
    /\ cycle.daily_jobs = 0
    /\ cycle.created = 2
    /\ Today \in DOMAIN cost_tracking
    /\ cost_tracking[Today].video_count = 2
    /\ cost_tracking[Today].total_cost = 2 * EstimateTotalVideoCost("talking_object")

---------------------------------------------------------------------------
\* SpecManualJob: schedule_manual_job called at any time, an operator
\* deleting jobs

\* schedule_manual_job: None (0) when check_budget_compliance refuses or
\* raises, when the estimate raises or when _create_job raises; the job row
\* is committed before the ledger is written
ScheduleManualJob(format, checkOk, costOk, insertOk, ledgerOk) ==
    /\ pc = "idle"
    /\ LET compliant ==
               checkOk /\ CheckBudgetCompliance(CostTrackingOf(Today).total_cost,
                                                DailyBudget,
                                                Cardinality(JobsCreatedOn(Today)),
                                                MaxDailyVideos)[1]
           estimated_cost == EstimateTotalVideoCost(format)
           inserted == compliant /\ costOk /\ insertOk
           id == NewId
       IN  /\ jobs' = IF inserted
                      THEN [j \in DOMAIN jobs \cup {id} |->
                              IF j = id THEN NewJob(format, estimated_cost, Today)
                              ELSE jobs[j]]
                      ELSE jobs
           /\ cost_tracking' = IF inserted /\ ledgerOk
                               THEN UpdateCostTracking(cost_tracking, Today, estimated_cost)
                               ELSE cost_tracking
           /\ call' = [fn |-> "schedule_manual_job",
                       args |-> <<format>>,
                       ok |-> checkOk /\ costOk /\ insertOk /\ ledgerOk,
                       ret |-> IF inserted /\ ledgerOk THEN id ELSE 0]
    /\ UNCHANGED <<now, format_weight_rows, pc, format_weights, jobs_to_schedule,
                   slot, budget_remaining, scheduled_jobs, cycle, wpc, opt,
                   kill_switch, automation_enabled, session_weights, peer, proc>>

NextManualJob ==
    \/ \E format \in VideoFormat, checkOk, costOk, insertOk, ledgerOk \in BOOLEAN :
          ScheduleManualJob(format, checkOk, costOk, insertOk, ledgerOk)
    \/ DashboardDeleteJob

SpecManualJob == Init /\ [][NextManualJob]_vars

---------------------------------------------------------------------------
\* SpecTwoLoops: two workers on one database late in a day: each runs
\* _schedule_new_jobs, its budget check first and then schedule_jobs

\* the jobs created, recorded and since deleted earlier in the day: one
\* more job is affordable, two more are not
EarlierJobs == (ConfigDailyBudget \div EstimateTotalVideoCost("talking_object")) - 1

InitLateDay ==
    /\ now = 0
    /\ jobs = << >>
    /\ LET spent == EarlierJobs * EstimateTotalVideoCost("talking_object")
       IN  cost_tracking =
               [d \in {Today} |-> [openai_cost |-> spent, total_cost |-> spent,
                                   video_count |-> EarlierJobs]]
    /\ format_weight_rows = [f \in VideoFormat |-> SeedRow]
    /\ pc = "idle"
    /\ format_weights = DefaultFormatWeights
    /\ jobs_to_schedule = 0
    /\ slot = 0
    /\ budget_remaining = 0
    /\ scheduled_jobs = <<>>
    /\ cycle = NoCycle
    /\ wpc = "process"
    /\ opt = NoOpt
    /\ kill_switch = "false"
    /\ automation_enabled = "true"
    /\ session_weights = NoSession
    /\ peer = NoPeer
    /\ call = NoCall
    /\ proc = NoProc

\* _schedule_new_jobs of the other worker up to the loop of schedule_jobs:
\* it reads the ledger and the count, passes the budget check and finds a
\* slot; peer.row is the ledger row its budget_remaining comes from
PeerScheduleNewJobs ==
    /\ peer.pc = "idle"
    /\ CheckBudgetCompliance(CostTrackingOf(Today).total_cost, ConfigDailyBudget,
                             WorkerVideoCount, ConfigMaxVideosPerDay)[1]
    /\ Min(WorkerMaxJobs(WorkerVideoCount),
           CalculateAvailableJobSlots(Cardinality(JobsCreatedOn(Today)), TRUE)) > 0
    /\ peer' = [pc |-> "loop",
                found |-> Today \in DOMAIN cost_tracking,
                row |-> CostTrackingOf(Today),
                cost |-> 0]
    /\ UNCHANGED <<now, jobs, cost_tracking, format_weight_rows, pc, format_weights,
                   jobs_to_schedule, slot, budget_remaining, scheduled_jobs, cycle,
                   wpc, opt, kill_switch, automation_enabled, session_weights, call, proc>>

\* the first slot of the other worker's cycle: refused on its
\* budget_remaining, or the job row committed and today's ledger row queried
PeerScheduleSlot(format) ==
    /\ peer.pc = "loop"
    /\ LET estimated_cost == EstimateTotalVideoCost(format)
           id == NewId
       IN  IF BudgetExceeded(estimated_cost, WorkerBudgetRemaining(peer.row.total_cost))
           THEN jobs' = jobs /\ peer' = NoPeer
           ELSE /\ jobs' = [j \in DOMAIN jobs \cup {id} |->
                              IF j = id THEN NewJob(format, estimated_cost, Today)
                              ELSE jobs[j]]
                /\ peer' = [pc |-> "read",
                            found |-> Today \in DOMAIN cost_tracking,
                            row |-> CostTrackingOf(Today),
                            cost |-> estimated_cost]
    /\ UNCHANGED <<now, cost_tracking, format_weight_rows, pc, format_weights,
                   jobs_to_schedule, slot, budget_remaining, scheduled_jobs, cycle,
                   wpc, opt, kill_switch, automation_enabled, session_weights, call, proc>>

NextTwoLoops ==
    \/ WorkerProcessJobs
    \/ WorkerScheduleNewJobsDenied
    \/ WorkerScheduleNewJobs
    \/ RunScheduleSlotNoFailure
    \/ RunScheduleLoopEnd
    \/ WorkerScheduleNewJobsEnd
    \/ PeerScheduleNewJobs
    \/ \E format \in VideoFormat : PeerScheduleSlot(format)
    \/ PeerUpdateCostTracking

SpecTwoLoops == InitLateDay /\ [][NextTwoLoops]_vars

---------------------------------------------------------------------------
\* SpecAutomation: the control loop, an operator at the two toggles of
\* _show_settings

\* the toggle "Enable Automation": the row of the config table is written;
\* without a row the toggle raises AttributeError and nothing is stored
DashboardToggleAutomation ==
    /\ automation_enabled # "none"
    /\ automation_enabled' = IF automation_enabled = "true" THEN "false" ELSE "true"
    /\ UNCHANGED <<now, jobs, cost_tracking, format_weight_rows, pc, format_weights,
                   jobs_to_schedule, slot, budget_remaining, scheduled_jobs, cycle,
                   wpc, opt, kill_switch, session_weights, peer, call, proc>>

NextAutomation ==
    \/ NextWorker
    \/ DashboardToggleAutomation

SpecAutomation == InitWorker /\ [][NextAutomation]_vars

---------------------------------------------------------------------------
\* SpecStages: _process_jobs with the stages of each job, what their
\* collaborators do being any; an operator deletes jobs meanwhile

\* the body of the loop after the GENERATING commit: _generate_episode,
\* _render_video, _upload_video, then COMPLETED, or FAILED in the except
\* clause; call keeps the function the processing ended in and what the
\* collaborators did. A deleted row as in WorkerJobDone
WorkerJobStages(generated, safe, rendered, uploaded) ==
    /\ wpc = "processing"
    /\ proc.job # 0
    /\ LET last == LastStage(generated, safe, rendered, uploaded)
       IN  /\ call' = [fn |-> last,
                       args |-> <<generated, safe, rendered, uploaded>>,
                       ok |-> last = "completed",
                       ret |-> << >>]
           /\ IF proc.job \in DOMAIN jobs
              THEN /\ jobs' = [jobs EXCEPT ![proc.job] =
                                  IF last = "completed"
                                  THEN CompleteJob(@) ELSE FailJob(@)]
                   /\ proc' = [proc EXCEPT !.job = 0]
                   /\ wpc' = wpc
              ELSE /\ jobs' = jobs
                   /\ proc' = NoProc
                   /\ wpc' = "schedule"
    /\ UNCHANGED <<now, cost_tracking, format_weight_rows, pc, format_weights,
                   jobs_to_schedule, slot, budget_remaining, scheduled_jobs, cycle, opt,
                   kill_switch, automation_enabled, session_weights, peer>>

NextStages ==
    \/ WorkerQueryPendingJobs
    \/ WorkerJobGenerating
    \/ \E generated, safe, rendered, uploaded \in BOOLEAN :
          WorkerJobStages(generated, safe, rendered, uploaded)
    \/ WorkerEndProcessJobs
    \/ WorkerScheduleNewJobs
    \/ RunScheduleSlotNoFailure
    \/ RunScheduleLoopEnd
    \/ WorkerScheduleNewJobsEnd
    \/ DashboardDeleteFewJobs

SpecStages == Init /\ [][NextStages]_vars

---------------------------------------------------------------------------
\* SpecCooldown: should_optimize called at any hour after an optimizer run,
\* an operator overriding or editing the weights in between

\* the seeded store after the optimizer ran at hour 0: every format had the
\* same performance, the weights are 1.0 as before, the rows are rewritten
InitCooldown ==
    /\ now = 0
    /\ jobs = << >>
    /\ cost_tracking = << >>
    /\ format_weight_rows =
          ApplyNewWeights([f \in VideoFormat |-> SeedRow], DefaultFormatWeights, 0)
    /\ pc = "idle"
    /\ format_weights = DefaultFormatWeights
    /\ jobs_to_schedule = 0
    /\ slot = 0
    /\ budget_remaining = 0
    /\ scheduled_jobs = <<>>
    /\ cycle = NoCycle
    /\ wpc = "process"
    /\ opt = NoOpt
    /\ kill_switch = "false"
    /\ automation_enabled = "true"
    /\ session_weights = NoSession
    /\ peer = NoPeer
    /\ call = NoCall
    /\ proc = NoProc

\* hours pass, up to the hours around the end of the cooldown
PassHours ==
    /\ opt.status = "none"
    /\ \E at \in CallTimes : at > now /\ now' = at
    /\ UNCHANGED <<jobs, cost_tracking, format_weight_rows, pc, format_weights,
                   jobs_to_schedule, slot, budget_remaining, scheduled_jobs, cycle,
                   wpc, opt, kill_switch, automation_enabled, session_weights, peer,
                   call, proc>>

NextCooldown ==
    \/ CallManualOptimization
    \/ OptimizeFormatWeightsEnd
    \/ DashboardUpdateFormatWeights
    \/ PassHours
    \/ CallShouldOptimize

SpecCooldown == InitCooldown /\ [][NextCooldown]_vars

---------------------------------------------------------------------------
\* Properties of the job record, of the manual job and of the control loop

\* C31: every job the scheduler creates is PENDING with retry count 0 and a
\* format of VideoFormat; its generation cost is 70% and its render cost 30%
\* of the estimate, both are non-negative and their sum is the estimate that
\* was compared with the remaining budget, taken off it and, when the ledger
\* is written, added to the ledger.
C31_CreatedJobRecord ==
    [][\A id \in DOMAIN jobs' \ DOMAIN jobs :
          LET job == jobs'[id]
              estimated_cost == cycle'.cost - cycle.cost
          IN  /\ job.status = "pending"
              /\ job.retry_count = 0
              /\ job.format \in VideoFormat
              /\ estimated_cost = EstimateTotalVideoCost(job.format)
              /\ 10 * job.generation_cost = 7 * estimated_cost
              /\ 10 * job.render_cost = 3 * estimated_cost
              /\ job.generation_cost >= 0
              /\ job.render_cost >= 0
              /\ job.generation_cost + job.render_cost = estimated_cost
              /\ estimated_cost <= budget_remaining
              /\ cycle'.outcome = "created" =>
                    /\ budget_remaining' = budget_remaining - estimated_cost
                    /\ cost_tracking'[Today].total_cost =
                          CostTrackingOf(Today).total_cost + estimated_cost]_vars

\* the first job of a cycle is in the table and in the ledger, its two
\* shares making up what the ledger holds
C31_Witness ==
    /\ pc = "loop"
    /\ cycle.created = 1
    /\ cycle.outcome = "created"
    /\ \E id \in DOMAIN jobs :
          /\ jobs[id].status = "pending"
          /\ jobs[id].render_cost > 0
          /\ cost_tracking[Today].total_cost =
                jobs[id].generation_cost + jobs[id].render_cost

\* C32: after a successful automatic optimizer run the weights it returns
\* have an entry for every format of VideoFormat, and every format has a
\* row in the store written by the run with that weight: also a format
\* without samples and a format that had no row before the run.
C32_RunCoversEveryFormat ==
    opt.status = "success" =>
        /\ DOMAIN format_weight_rows = VideoFormat
        /\ \A f \in VideoFormat :
              /\ format_weight_rows[f].last_updated = now
              /\ format_weight_rows[f].reason =
                    IF f \in DOMAIN opt.before THEN AutomaticReason
                    ELSE "Initial optimization setup"
        /\ \E readOk \in BOOLEAN :
              LET new_weights ==
                      CalculateNewWeights(opt.performance,
                                          GetCurrentWeights(opt.before, readOk))
              IN  /\ DOMAIN new_weights = VideoFormat
                  /\ StoredWeights = new_weights

\* a run on a store without rows, one format having no completed video
C32_Witness ==
    /\ opt.status = "success"
    /\ opt.before = << >>
    /\ \E f \in VideoFormat : opt.performance[f].count = 0
    /\ DOMAIN format_weight_rows = VideoFormat

\* C33: after a successful automatic optimizer run every stored weight is
\* within maxAdjustment (0.2) of the weight the run read for that format at
\* its start.
C33_RunChangeBounded ==
    opt.status = "success" =>
        \E readOk \in BOOLEAN :
            LET current_weights == GetCurrentWeights(opt.before, readOk)
            IN  /\ StoredWeights = CalculateNewWeights(opt.performance, current_weights)
                /\ \A f \in DOMAIN current_weights :
                      /\ RatLe(RatSub(StoredWeights[f], current_weights[f]), MaxAdjustment)
                      /\ RatLe(RatSub(current_weights[f], StoredWeights[f]), MaxAdjustment)

\* C34: once schedule_manual_job has returned, the day's ledger total is at
\* most the daily budget and at most the daily cap of jobs were created
\* today.
C34_ManualJobAffordable ==
    call.fn = "schedule_manual_job" =>
        /\ CostTrackingOf(Today).total_cost <= DailyBudget
        /\ Cardinality(JobsCreatedOn(Today)) <= MaxDailyVideos

\* C35: with two workers running their budget check and scheduling cycle
\* against one database, the estimated costs of all the jobs created that
\* day, those deleted since included, sum to at most the daily budget.
C35_TwoLoopsWithinBudget ==
    EarlierJobs * EstimateTotalVideoCost("talking_object")
        + JobsCost(JobsCreatedOn(Today)) <= ConfigDailyBudget

\* C36: while the row automation_enabled of the config table is off, a
\* worker at the top of its loop starts no tick: it processes no pending
\* job, does not go on to the scheduler and no job is created or changed.
C36_AutomationOffIdles ==
    [][(automation_enabled = "false" /\ automation_enabled' = "false"
           /\ wpc = "process" /\ pc = "idle")
          => (wpc' \in {"process", "stopped"} /\ pc' = "idle" /\ jobs' = jobs)]_vars

\* the step in which _process_jobs ends the processing of the job in hand,
\* its row still being in the table
JobProcessed == proc.job # 0 /\ proc' # proc /\ proc.job \in DOMAIN jobs

\* C37: the job a tick has in hand is COMPLETED or FAILED when the tick is
\* done with it, with an error message when FAILED; a tick ends only with
\* every job of its list in the table COMPLETED or FAILED, so the failure
\* of one job does not keep the others from being processed; between ticks
\* no job is GENERATING.
C37_TickProcessesEveryJob ==
    [][/\ JobProcessed =>
             /\ jobs'[proc.job].status \in {"completed", "failed"}
             /\ jobs'[proc.job].status = "failed" => jobs'[proc.job].error_message
       /\ (wpc = "processing" /\ wpc' # "processing") =>
             \A id \in (proc.pending_jobs \cup {proc.job}) \cap DOMAIN jobs' :
                jobs'[id].status \in {"completed", "failed"}
       /\ wpc' # "processing" =>
             \A id \in DOMAIN jobs' : jobs'[id].status # "generating"]_vars

\* C38: a job for which episode generation, the safety check, rendering and
\* upload all succeed is COMPLETED, with its youtube id, by the tick that
\* processes it.
C38_SuccessfulJobCompleted ==
    [][(JobProcessed /\ call'.args = <<TRUE, TRUE, TRUE, TRUE>>) =>
          /\ jobs'[proc.job].status = "completed"
          /\ jobs'[proc.job].youtube_id]_vars

\* C39: a job whose generated episode is found unsafe is not COMPLETED: its
\* processing ends in the safety check, before rendering and upload, and
\* the job is FAILED with an error message.
C39_UnsafeEpisodeStopsJob ==
    [][(JobProcessed /\ call'.args[1] /\ ~call'.args[2]) =>
          /\ call'.fn = "check_content_safety"
          /\ jobs'[proc.job].status = "failed"
          /\ jobs'[proc.job].error_message]_vars

\* C40: the rows of SpecCooldown were written by the optimizer run of hour
\* 0 and no later run happens; should_optimize, called more than the
\* cooldown after that run, returns true, whatever manual override or
\* dashboard edit of the weights happened since the run.
C40_CooldownSinceLastRun ==
    [][(call' # call /\ call'.fn = "should_optimize" /\ call'.ok
           /\ now > CooldownPeriod) => call'.ret]_vars

====
